---- MODULE Spec2Model ----
(***************************************************************************)
(* Task manager: the Task Service and its store (Prisma), the HTTP         *)
(* controllers and routes in front of it, the JWT Auth Gate, and the       *)
(* drag-and-drop part of the browser client.                               *)
(*                                                                         *)
(* Strings that the code trims or escapes are sequences of one-character   *)
(* strings.  A JSON value is a record [t |-> its type, s |-> its           *)
(* characters].  Time is a natural number read from the variable now.      *)
(* The store is reliable: Prisma calls do not fail by themselves.          *)
(***************************************************************************)
EXTENDS Integers, Sequences, FiniteSets, TLC

VARIABLES
  store,     \* rows of the Task table, in creation order
  now,       \* the server clock
  last,      \* the last Task Service call or task request and its outcome
  issued,    \* the tokens login has handed out so far
  lastAuth,  \* the last login or token check and its outcome
  env,       \* process.env.JWT_EXPIRES_IN when the server started
  columns,   \* TaskBoard.columns: the tasks each TaskColumn holds
  dragData,  \* DragDropService.dragData
  inflight,  \* status updates the board has sent and not yet heard about
  isLoading, \* TaskBoard.isLoading: a getTasks() call is awaited
  cache,     \* TaskCache: the two localStorage entries
  clock,     \* the browser clock
  reloads,   \* pending timers of handleTaskMoveError
  lastCache, \* the last call of a TaskCache method and its outcome
  modal,     \* TaskModal: whether it is hidden, its form and its error
  creating,  \* submits of the modal whose callback has not settled yet
  fetches,   \* getTasks() calls of the board that have not settled yet
  responses, \* responses the server has sent and the board has not handled
  jwt_token  \* localStorage "jwt_token" in the browser

srvVars == <<store, now, last, issued, lastAuth, env>>
formVars == <<modal, creating>>
netVars == <<fetches, responses>>
uiVars == <<columns, dragData, inflight, isLoading, cache, clock, reloads,
            lastCache, modal, creating, fetches, responses, jwt_token>>
vars == <<store, now, last, issued, lastAuth, env,
          columns, dragData, inflight, isLoading, cache, clock, reloads,
          lastCache, modal, creating, fetches, responses, jwt_token>>

(***************************************************************************)
(* Bounds of the model.                                                    *)
(***************************************************************************)
MaxTasks == 2          \* rows the Task table may hold
MaxGuardedTasks == 1   \* the same, where requests come through the Auth Gate
MaxTimedTasks == 1     \* the same, where updates meet the server clock
MaxTime == 1           \* the clock stops here; one unit is 24 hours
MaxBoardTasks == 1     \* rows of the Task table while the board is open
MaxInflight == 1       \* status updates in flight at once
MaxReloads == 1        \* reload timers pending at once
MaxResponses == 2      \* responses on their way to the board at once
MaxCreating == 1       \* submits of the modal pending at once
MaxClock == 6          \* the browser clock stops here; one unit is a minute

(***************************************************************************)
(* JSON values and strings.                                                *)
(***************************************************************************)
Undefined == [t |-> "undefined", s |-> <<>>]
JNull == [t |-> "null", s |-> <<>>]
Num == [t |-> "number", s |-> <<>>]
Str(s) == [t |-> "string", s |-> s]

IsString(v) == v.t = "string"
\* JavaScript truthiness of a value: a non-empty string, or the number 123.
Truthy(v) == (v.t = "string" /\ v.s # <<>>) \/ v.t = "number"

RECURSIVE TrimStart(_)
TrimStart(s) ==
  IF s # <<>> /\ Head(s) = " " THEN TrimStart(Tail(s)) ELSE s

RECURSIVE TrimEnd(_)
TrimEnd(s) ==
  IF s # <<>> /\ s[Len(s)] = " " THEN TrimEnd(SubSeq(s, 1, Len(s) - 1)) ELSE s

trim(s) == TrimEnd(TrimStart(s))

HTML_ESCAPE_MAP(c) ==
  CASE c = "<" -> <<"&", "l", "t", ";">>
    [] c = ">" -> <<"&", "g", "t", ";">>
    [] c = "&" -> <<"&", "a", "m", "p", ";">>
    [] c = "\"" -> <<"&", "q", "u", "o", "t", ";">>
    [] c = "'" -> <<"&", "#", "x", "2", "7", ";">>
    [] OTHER -> <<c>>

RECURSIVE escapeHtml(_)
escapeHtml(s) ==
  IF s = <<>> THEN <<>> ELSE HTML_ESCAPE_MAP(Head(s)) \o escapeHtml(Tail(s))

\* Sanitizer.sanitizeTaskInput: data.title is a string here.
sanitizeTaskInput(data) ==
  [title |-> Str(escapeHtml(trim(data.title.s))),
   description |->
     IF data.description.t # "undefined" /\ data.description.t # "null"
     THEN Str(escapeHtml(trim(data.description.s)))
     ELSE Undefined]

(***************************************************************************)
(* The Task table.                                                         *)
(***************************************************************************)
TaskStatus == {"PENDING", "IN_PROGRESS", "COMPLETED"}

\* The id of a path segment made of white space only: no row has it.
BlankId == 0

NoTask ==
  [id |-> 0, title |-> <<>>, description |-> Undefined, status |-> "",
   createdAt |-> 0, updatedAt |-> 0]

StoreIds(st) == {st[i].id : i \in 1..Len(st)}

\* prisma.task.create: id @default(cuid()), createdAt @default(now()),
\* updatedAt @updatedAt.  Ids are 1, 2, ... in creation order.
PrismaCreate(st, t, title, description, status) ==
  Append(st, [id |-> Len(st) + 1, title |-> title, description |-> description,
              status |-> status, createdAt |-> t, updatedAt |-> t])

PrismaFindUnique(st, id) ==
  IF id \in StoreIds(st)
  THEN st[CHOOSE i \in 1..Len(st) : st[i].id = id]
  ELSE NoTask

\* An update without its where clause: every row gets the status.
PrismaUpdateStatus_allRows(st, t, id, status) ==
  [i \in 1..Len(st) |-> [st[i] EXCEPT !.status = status, !.updatedAt = t]]

\* An update that leaves a row alone when it already has the status.
PrismaUpdateStatus_skipUnchanged(st, t, id, status) ==
  [i \in 1..Len(st) |->
     IF st[i].id = id /\ st[i].status # status
     THEN [st[i] EXCEPT !.status = status, !.updatedAt = t]
     ELSE st[i]]

\* prisma.task.update({where: {id}, data: {status}}) on an existing row;
\* updatedAt is an @updatedAt column.
PrismaUpdateStatus(st, t, id, status) ==
  [i \in 1..Len(st) |->
     IF st[i].id = id
     THEN [st[i] EXCEPT !.status = status, !.updatedAt = t]
     ELSE st[i]]

\* An update that deletes the row instead of writing it.
PrismaUpdateFields_dropRow(st, t, id, title, description) ==
  SelectSeq(st, LAMBDA row : row.id # id)

\* An update that writes the row anew, creation time included.
PrismaUpdateFields_recreate(st, t, id, title, description) ==
  [i \in 1..Len(st) |->
     IF st[i].id = id
     THEN [st[i] EXCEPT !.title = title, !.description = description,
                        !.createdAt = t, !.updatedAt = t]
     ELSE st[i]]

\* prisma.task.update({where: {id}, data: {title, description}}).
PrismaUpdateFields(st, t, id, title, description) ==
  [i \in 1..Len(st) |->
     IF st[i].id = id
     THEN [st[i] EXCEPT !.title = title, !.description = description,
                        !.updatedAt = t]
     ELSE st[i]]

\* findMany with orderBy createdAt "asc": oldest first.
PrismaFindMany_ascending(st) ==
  {l \in [1..Len(st) -> {st[i] : i \in 1..Len(st)}] :
     /\ \A i \in 1..Len(st) : \E j \in 1..Len(st) : l[j] = st[i]
     /\ \A i, j \in 1..Len(st) : i < j => l[i].createdAt <= l[j].createdAt}

\* prisma.task.findMany({orderBy: {createdAt: "desc"}}): the rows, newest
\* first; rows with the same createdAt come in either order.
PrismaFindMany(st) ==
  {l \in [1..Len(st) -> {st[i] : i \in 1..Len(st)}] :
     /\ \A i \in 1..Len(st) : \E j \in 1..Len(st) : l[j] = st[i]
     /\ \A i, j \in 1..Len(st) : i < j => l[i].createdAt >= l[j].createdAt}

convertPrismaTaskToTask(row) ==
  [row EXCEPT !.description =
     IF row.description.t = "null" THEN Undefined ELSE row.description]

(***************************************************************************)
(* TaskService.  Every method returns the new store, the error it threw    *)
(* (err = "none": it returned), the returned task and the Prisma calls it  *)
(* made, in order.                                                         *)
(***************************************************************************)
MsgTitleRequired == "Title is required and cannot be empty"
MsgInvalidStatus == "Invalid status: <status>. Must be one of: PENDING, IN_PROGRESS, COMPLETED"
MsgNotFound == "Task with ID <id> not found"

Returned(st, task, list, calls) ==
  [store |-> st, err |-> "none", msg |-> "", task |-> task, list |-> list,
   calls |-> calls]

Thrown(st, err, msg, calls) ==
  [store |-> st, err |-> err, msg |-> msg, task |-> NoTask, list |-> <<>>,
   calls |-> calls]

DefaultStatus_inProgress == "IN_PROGRESS"

\* The status given to a created task.
DefaultStatus == "PENDING"

TitleIsEmpty_untrimmed(title) == ~Truthy(title)

\* !data.title || data.title.trim().length === 0
TitleIsEmpty(title) == ~Truthy(title) \/ Len(trim(title.s)) = 0

TaskService_createTask(st, t, data) ==
  IF TitleIsEmpty(data.title)
  THEN Thrown(st, "validation", MsgTitleRequired, <<>>)
  ELSE LET title == trim(data.title.s)
           description ==
             IF data.description.t = "undefined" THEN Undefined
             ELSE IF trim(data.description.s) = <<>> THEN Undefined
             ELSE Str(trim(data.description.s))
           st2 == PrismaCreate(st, t, title,
                     IF description.t = "undefined" THEN JNull ELSE description,
                     DefaultStatus)
       IN Returned(st2, convertPrismaTaskToTask(st2[Len(st2)]), <<>>,
                   <<"create">>)

TaskService_getAllTasks(st, rows) ==
  Returned(st, NoTask,
           [i \in 1..Len(rows) |-> convertPrismaTaskToTask(rows[i])],
           <<"findMany">>)

TaskService_findTaskById(st, id) ==
  LET row == PrismaFindUnique(st, id)
  IN Returned(st, IF row = NoTask THEN NoTask ELSE convertPrismaTaskToTask(row),
              <<>>, <<"findUnique">>)

IsTaskStatus_any(status) == TRUE

\* Object.values(TaskStatus).includes(status), in the service.
IsTaskStatus(status) == status \in TaskStatus

TaskService_updateTaskStatus_lookupFirst(st, t, id, status) ==
  IF TaskService_findTaskById(st, id).task = NoTask
  THEN Thrown(st, "notfound", MsgNotFound, <<"findUnique">>)
  ELSE IF ~IsTaskStatus(status)
  THEN Thrown(st, "validation", MsgInvalidStatus, <<"findUnique">>)
  ELSE LET st2 == PrismaUpdateStatus(st, t, id, status)
       IN Returned(st2, convertPrismaTaskToTask(PrismaFindUnique(st2, id)),
                   <<>>, <<"findUnique", "update">>)

TaskService_updateTaskStatus_upsert(st, t, id, status) ==
  IF ~IsTaskStatus(status)
  THEN Thrown(st, "validation", MsgInvalidStatus, <<>>)
  ELSE LET st2 == IF id \in StoreIds(st)
                  THEN PrismaUpdateStatus(st, t, id, status)
                  ELSE PrismaUpdateStatus(st, t, 1, status)
       IN Returned(st2, convertPrismaTaskToTask(PrismaFindUnique(st2, id)),
                   <<>>, <<"update">>)

TaskService_updateTaskStatus(st, t, id, status) ==
  IF ~IsTaskStatus(status)
  THEN Thrown(st, "validation", MsgInvalidStatus, <<>>)
  ELSE IF TaskService_findTaskById(st, id).task = NoTask
  THEN Thrown(st, "notfound", MsgNotFound, <<"findUnique">>)
  ELSE LET st2 == PrismaUpdateStatus(st, t, id, status)
       IN Returned(st2, convertPrismaTaskToTask(PrismaFindUnique(st2, id)),
                   <<>>, <<"findUnique", "update">>)

\* updateTask that looks the task up before it validates the title.
TaskService_updateTask_lookupFirst(st, t, id, data) ==
  IF TaskService_findTaskById(st, id).task = NoTask
  THEN Thrown(st, "notfound", MsgNotFound, <<"findUnique">>)
  ELSE IF ~Truthy(data.title) \/ Len(trim(data.title.s)) = 0
  THEN Thrown(st, "validation", MsgTitleRequired, <<"findUnique">>)
  ELSE LET st2 == PrismaUpdateFields(st, t, id, trim(data.title.s),
                     IF data.description.t = "undefined" THEN JNull
                     ELSE Str(trim(data.description.s)))
       IN Returned(st2, convertPrismaTaskToTask(PrismaFindUnique(st2, id)),
                   <<>>, <<"findUnique", "update">>)

TaskService_updateTask(st, t, id, data) ==
  IF ~Truthy(data.title) \/ Len(trim(data.title.s)) = 0
  THEN Thrown(st, "validation", MsgTitleRequired, <<>>)
  ELSE IF TaskService_findTaskById(st, id).task = NoTask
  THEN Thrown(st, "notfound", MsgNotFound, <<"findUnique">>)
  ELSE LET st2 == PrismaUpdateFields(st, t, id, trim(data.title.s),
                     IF data.description.t = "undefined" THEN JNull
                     ELSE Str(trim(data.description.s)))
       IN Returned(st2, convertPrismaTaskToTask(PrismaFindUnique(st2, id)),
                   <<>>, <<"findUnique", "update">>)

(***************************************************************************)
(* TaskController and the task routes.  A response carries the status      *)
(* code, the envelope's error and message, and the task or list sent.      *)
(***************************************************************************)
MsgTitleMustBeString == "Title is required and must be a string"
MsgDescriptionMustBeString == "Description must be a string if provided"
MsgStatusMustBeOneOf == "Status is required and must be one of: PENDING, IN_PROGRESS, COMPLETED"
MsgTaskIdParameter == "Task ID parameter is required and must be a non-empty string"

\* The call the controller made to the service, when it made none.
NoCall == Thrown(<<>>, "nocall", "", <<>>)

Response(st, code, error, message, task, list, svc) ==
  [store |-> st, code |-> code, error |-> error, message |-> message,
   task |-> task, list |-> list, svc |-> svc]

\* The TaskResponse object: the description key is left out when falsy.
TaskResponse(task) ==
  [task EXCEPT !.description =
     IF Truthy(task.description) THEN task.description ELSE Undefined]

\* error.message.includes(...), on the messages the service throws.
IncludesNotFound(msg) == msg = MsgNotFound
IncludesInvalidStatus(msg) == msg = MsgInvalidStatus

TaskController_createTask(st, t, body) ==
  IF ~Truthy(body.title) \/ ~IsString(body.title)
  THEN Response(st, 400, "Validation Error", MsgTitleMustBeString, NoTask,
                <<>>, NoCall)
  ELSE IF body.description.t # "undefined" /\ ~IsString(body.description)
  THEN Response(st, 400, "Validation Error", MsgDescriptionMustBeString,
                NoTask, <<>>, NoCall)
  ELSE LET sanitizedData ==
             sanitizeTaskInput(
               [title |-> body.title,
                description |-> IF Truthy(body.description)
                                THEN body.description ELSE Undefined])
           createTaskData ==
             [title |-> sanitizedData.title,
              description |-> IF Truthy(sanitizedData.description)
                              THEN sanitizedData.description ELSE Undefined]
           r == TaskService_createTask(st, t, createTaskData)
       IN IF r.err # "none"
          THEN Response(r.store, 500, "Internal Server Error", r.msg, NoTask,
                        <<>>, r)
          ELSE Response(r.store, 201, "", "", TaskResponse(r.task), <<>>, r)

TaskController_getAllTasks(st, rows) ==
  LET r == TaskService_getAllTasks(st, rows)
  IN Response(r.store, 200, "", "",  NoTask,
              [i \in 1..Len(r.list) |-> TaskResponse(r.list[i])], r)

\* req.params.id is a non-empty string on this route, so the controller's
\* own check of the id never fires; the status is "" when the body has none.
TaskController_updateTaskStatus(st, t, id, status) ==
  IF status = "" \/ status \notin TaskStatus
  THEN Response(st, 400, "Validation Error", MsgStatusMustBeOneOf, NoTask,
                <<>>, NoCall)
  ELSE LET r == TaskService_updateTaskStatus(st, t, id, status)
       IN IF r.err = "none"
          THEN Response(r.store, 200, "", "", TaskResponse(r.task), <<>>, r)
          ELSE IF IncludesNotFound(r.msg)
          THEN Response(r.store, 404, "Not Found", r.msg, NoTask, <<>>, r)
          ELSE IF IncludesInvalidStatus(r.msg)
          THEN Response(r.store, 400, "Validation Error", r.msg, NoTask, <<>>, r)
          ELSE Response(r.store, 500, "Internal Server Error", r.msg, NoTask,
                        <<>>, r)

\* createTaskRoutes: PUT /:id/status checks the path parameter first.
Route_putStatus(st, t, id, status) ==
  IF id = BlankId
  THEN Response(st, 400, "Validation Error", MsgTaskIdParameter, NoTask, <<>>,
                NoCall)
  ELSE TaskController_updateTaskStatus(st, t, id, status)

(***************************************************************************)
(* AuthService: configuration, jwt.sign and jwt.verify.  A signature is    *)
(* the pair of the signing key and the signed payload; a token whose       *)
(* payload was altered keeps the signature of the original payload.        *)
(***************************************************************************)
AUTH_USERNAME == <<"u">>
AUTH_PASSWORD == <<"p">>
JWT_SECRET == "secret"
\* process.env.JWT_EXPIRES_IN is not set.
Unset == ""

\* process.env.JWT_EXPIRES_IN || "24h"
jwtExpiresIn == IF env = Unset THEN "24h" ELSE env
\* expiresIn: "24h" of jwt.sign, in clock units.
ExpiresIn24h == 1

Signature(key, username, iat, exp) == <<key, username, iat, exp>>

NoToken ==
  [malformed |-> TRUE, empty |-> TRUE, username |-> <<>>, iat |-> 0,
   exp |-> 0, sig |-> Signature("", <<>>, 0, 0)]

\* A string that is no JSON Web Token, such as "invalid.jwt.token".
Garbage == [NoToken EXCEPT !.empty = FALSE]

NoPayload == [username |-> <<>>, iat |-> 0, exp |-> 0]

\* jwt.sign({username}, key, {expiresIn}) at time t.
jwtSign(username, key, expiresIn, t) ==
  [malformed |-> FALSE, empty |-> FALSE, username |-> username, iat |-> t,
   exp |-> t + expiresIn, sig |-> Signature(key, username, t, t + expiresIn)]

\* jwt.verify(token, key) at time t: the payload, or NoPayload when it throws.
jwtVerify(token, key, t) ==
  IF token.malformed THEN NoPayload
  ELSE IF token.sig # Signature(key, token.username, token.iat, token.exp)
  THEN NoPayload
  ELSE IF t >= token.exp THEN NoPayload
  ELSE [username |-> token.username, iat |-> token.iat, exp |-> token.exp]

\* jwt.decode: the payload of any well-formed token, unverified.
verifyToken_decodeOnly(token, t) ==
  IF token.malformed THEN NoPayload
  ELSE [username |-> token.username, iat |-> token.iat, exp |-> token.exp]

\* AuthService.verifyToken: null (NoPayload) when jwt.verify throws.
verifyToken(token, t) == jwtVerify(token, JWT_SECRET, t)

CredentialsMatch_either(username, password) ==
  username.s = AUTH_USERNAME \/ password.s = AUTH_PASSWORD

CredentialsMatch(username, password) ==
  ~(username.s # AUTH_USERNAME \/ password.s # AUTH_PASSWORD)

\* AuthService.login: the token, or err = "invalid" for "Invalid credentials".
AuthService_login(username, password, t) ==
  IF ~CredentialsMatch(username, password)
  THEN [err |-> "invalid", token |-> NoToken, expiresIn |-> ""]
  ELSE [err |-> "none",
        token |-> jwtSign(username.s, JWT_SECRET, ExpiresIn24h, t),
        expiresIn |-> jwtExpiresIn]

\* AuthController.login: err is "nocall" when the service was not called.
AuthController_login(username, password, t) ==
  IF ~Truthy(username) \/ ~IsString(username)
  THEN [code |-> 400, err |-> "nocall", token |-> NoToken, expiresIn |-> ""]
  ELSE IF ~Truthy(password) \/ ~IsString(password)
  THEN [code |-> 400, err |-> "nocall", token |-> NoToken, expiresIn |-> ""]
  ELSE LET r == AuthService_login(username, password, t)
       IN IF r.err = "invalid"
          THEN [code |-> 401, err |-> r.err, token |-> NoToken,
                expiresIn |-> ""]
          ELSE [code |-> 200, err |-> r.err, token |-> r.token,
                expiresIn |-> r.expiresIn]

(***************************************************************************)
(* authMiddleware.  A header is the list of the parts that split(" ")      *)
(* makes of it; a part is a word or a token.                               *)
(***************************************************************************)
Word(w) == [w |-> w, tok |-> NoToken]
TokenPart(tok) == [w |-> "<token>", tok |-> tok]

NoHeader == [present |-> FALSE, parts |-> <<>>]
Header(parts) == [present |-> TRUE, parts |-> parts]

authMiddleware_anyScheme(hdr, t) ==
  IF ~hdr.present \/ hdr.parts = <<Word("")>>
  THEN [code |-> 401, message |-> "No token provided", decoded |-> NoPayload]
  ELSE IF Len(hdr.parts) # 2
  THEN [code |-> 401,
        message |-> "Invalid token format. Expected: Bearer <token>",
        decoded |-> NoPayload]
  ELSE IF hdr.parts[2] = Word("")
  THEN [code |-> 401, message |-> "Token is missing", decoded |-> NoPayload]
  ELSE LET decoded == verifyToken(hdr.parts[2].tok, t)
       IN IF decoded = NoPayload
          THEN [code |-> 401, message |-> "Invalid or expired token",
                decoded |-> NoPayload]
          ELSE [code |-> 0, message |-> "", decoded |-> decoded]

\* code 0: next() was called, with req.user = decoded.
authMiddleware(hdr, t) ==
  IF ~hdr.present \/ hdr.parts = <<Word("")>>
  THEN [code |-> 401, message |-> "No token provided", decoded |-> NoPayload]
  ELSE IF Len(hdr.parts) # 2 \/ hdr.parts[1] # Word("Bearer")
  THEN [code |-> 401,
        message |-> "Invalid token format. Expected: Bearer <token>",
        decoded |-> NoPayload]
  ELSE IF hdr.parts[2] = Word("")
  THEN [code |-> 401, message |-> "Token is missing", decoded |-> NoPayload]
  ELSE LET decoded == verifyToken(hdr.parts[2].tok, t)
       IN IF decoded = NoPayload
          THEN [code |-> 401, message |-> "Invalid or expired token",
                decoded |-> NoPayload]
          ELSE [code |-> 0, message |-> "", decoded |-> decoded]

(***************************************************************************)
(* What a call or request leaves in last and lastAuth.  last is the part   *)
(* of the latest request handled by the task routes or the Task Service    *)
(* (NoLast when the request did not get there); lastAuth is its part       *)
(* handled by the Auth Gate.  For a call of an update method of the Task   *)
(* Service, before is the row with the call's id as it was before the call *)
(* (NoTask when there was none).                                           *)
(***************************************************************************)
NoData == [title |-> Undefined, description |-> Undefined]

ServiceCall(op, id, status, data, r) ==
  [op |-> op, via |-> "service", id |-> id, status |-> status, data |-> data,
   code |-> 0, error |-> "", message |-> "", err |-> r.err, msg |-> r.msg,
   task |-> r.task, list |-> r.list, calls |-> r.calls, before |-> NoTask]

HttpRequest(op, id, status, data, resp) ==
  [op |-> op, via |-> "http", id |-> id, status |-> status, data |-> data,
   code |-> resp.code, error |-> resp.error, message |-> resp.message,
   err |-> resp.svc.err, msg |-> resp.svc.msg,
   task |-> resp.task, list |-> resp.list, calls |-> resp.svc.calls,
   before |-> NoTask]

NoLast ==
  [op |-> "", via |-> "", id |-> 0, status |-> "", data |-> NoData,
   code |-> 0, error |-> "", message |-> "", err |-> "nocall", msg |-> "",
   task |-> NoTask, list |-> <<>>, calls |-> <<>>, before |-> NoTask]

NoAuth ==
  [op |-> "", username |-> Undefined, password |-> Undefined,
   header |-> NoHeader, at |-> 0, code |-> 0, message |-> "",
   err |-> "nocall", token |-> NoToken, expiresIn |-> "",
   decoded |-> NoPayload]

LoginRequest(username, password, t, resp) ==
  [NoAuth EXCEPT !.op = "login", !.username = username,
                 !.password = password, !.at = t, !.code = resp.code,
                 !.err = resp.err, !.token = resp.token,
                 !.expiresIn = resp.expiresIn]

\* op names the task endpoint the request was for.
GuardedRequest(op, hdr, t, auth) ==
  [NoAuth EXCEPT !.op = op, !.header = hdr, !.at = t, !.code = auth.code,
                 !.message = auth.message, !.decoded = auth.decoded]

(***************************************************************************)
(* Inputs.                                                                 *)
(***************************************************************************)
BlankTitles ==
  {[title |-> Str(<<>>), description |-> Undefined],
   [title |-> Str(<<" ">>), description |-> Str(<<"b">>)]}

CreateTaskRequests ==
  BlankTitles \cup {[title |-> Str(<<" ", "a">>), description |-> Str(<<" ">>)]}

Bodies ==
  CreateTaskRequests \cup
  {[title |-> Str(<<"<">>), description |-> Str(<<"b", " ">>)],
   [title |-> Undefined, description |-> Undefined],
   [title |-> Num, description |-> Undefined],
   [title |-> Str(<<"a">>), description |-> Num]}

StatusInputs == TaskStatus \cup {"DONE", ""}

\* Settings of JWT_EXPIRES_IN: none, one day, two days.
EnvInputs == {Unset, "24h", "48h"}

IdInputs == 0..(MaxTasks + 1)

CredentialInputs(secret) ==
  {Undefined, Num, Str(<<>>), Str(secret), Str(secret \o <<" ">>), Str(<<"x">>)}

\* Tokens a client can present: the issued ones, issued ones with the expiry
\* pushed back, tokens signed with another key, and strings that are no token.
Tampered(tok) == [tok EXCEPT !.exp = tok.exp + 1]
TokenInputs ==
  issued \cup {Tampered(tok) : tok \in issued}
         \cup {jwtSign(AUTH_USERNAME, "other", ExpiresIn24h, now), Garbage}

HeaderInputs ==
  {NoHeader, Header(<<Word("")>>), Header(<<Word("Bearer")>>),
   Header(<<Word("Bearer"), Word("")>>)}
  \cup {Header(<<Word("Bearer"), TokenPart(tok)>>) : tok \in TokenInputs}
  \cup {Header(<<Word(w), TokenPart(tok)>>) :
          w \in {"Basic", "bearer"}, tok \in issued}
  \cup {Header(<<Word("Bearer"), TokenPart(tok), Word("x")>>) : tok \in issued}

GuardedBodies ==
  {[title |-> Str(<<"a">>), description |-> Undefined],
   [title |-> Str(<<" ">>), description |-> Undefined]}

GuardedStatusInputs == {"COMPLETED", "DONE"}

(***************************************************************************)
(* Calls of the Task Service and requests to the task routes.              *)
(***************************************************************************)
SvcCreateTask ==
  \E data \in CreateTaskRequests :
    LET r == TaskService_createTask(store, now, data)
    IN /\ Len(r.store) <= MaxTasks
       /\ store' = r.store
       /\ last' = ServiceCall("createTask", 0, "", data, r)
       /\ UNCHANGED <<now, issued, lastAuth>>
       /\ UNCHANGED uiVars
       /\ UNCHANGED env

SvcGetAllTasks ==
  \E rows \in PrismaFindMany(store) :
    LET r == TaskService_getAllTasks(store, rows)
    IN /\ store' = r.store
       /\ last' = ServiceCall("getAllTasks", 0, "", NoData, r)
       /\ UNCHANGED <<now, issued, lastAuth>>
       /\ UNCHANGED uiVars
       /\ UNCHANGED env

SvcUpdateTaskStatus ==
  \E id \in IdInputs, status \in StatusInputs :
    LET r == TaskService_updateTaskStatus(store, now, id, status)
    IN /\ store' = r.store
       /\ last' = [ServiceCall("updateTaskStatus", id, status, NoData, r)
                    EXCEPT !.before = PrismaFindUnique(store, id)]
       /\ UNCHANGED <<now, issued, lastAuth>>
       /\ UNCHANGED uiVars
       /\ UNCHANGED env

SvcUpdateTask ==
  \E id \in IdInputs, data \in CreateTaskRequests :
    LET r == TaskService_updateTask(store, now, id, data)
    IN /\ store' = r.store
       /\ last' = [ServiceCall("updateTask", id, "", data, r)
                    EXCEPT !.before = PrismaFindUnique(store, id)]
       /\ UNCHANGED <<now, issued, lastAuth>>
       /\ UNCHANGED uiVars
       /\ UNCHANGED env

SvcFindTaskById ==
  \E id \in IdInputs :
    LET r == TaskService_findTaskById(store, id)
    IN /\ store' = r.store
       /\ last' = ServiceCall("findTaskById", id, "", NoData, r)
       /\ UNCHANGED <<now, issued, lastAuth>>
       /\ UNCHANGED uiVars
       /\ UNCHANGED env

PostTasks ==
  \E body \in Bodies :
    LET resp == TaskController_createTask(store, now, body)
    IN /\ Len(resp.store) <= MaxTasks
       /\ store' = resp.store
       /\ last' = HttpRequest("createTask", 0, "", body, resp)
       /\ UNCHANGED <<now, issued, lastAuth>>
       /\ UNCHANGED uiVars
       /\ UNCHANGED env

GetTasks ==
  \E rows \in PrismaFindMany(store) :
    LET resp == TaskController_getAllTasks(store, rows)
    IN /\ store' = resp.store
       /\ last' = HttpRequest("getAllTasks", 0, "", NoData, resp)
       /\ UNCHANGED <<now, issued, lastAuth>>
       /\ UNCHANGED uiVars
       /\ UNCHANGED env

PutTaskStatus ==
  \E id \in IdInputs, status \in StatusInputs :
    LET resp == Route_putStatus(store, now, id, status)
    IN /\ store' = resp.store
       /\ last' = HttpRequest("updateTaskStatus", id, status, NoData, resp)
       /\ UNCHANGED <<now, issued, lastAuth>>
       /\ UNCHANGED uiVars
       /\ UNCHANGED env

(***************************************************************************)
(* Requests through the application: POST /api/auth/login, and the task    *)
(* routes behind authMiddleware.                                           *)
(***************************************************************************)
Tick ==
  /\ now < MaxTime
  /\ now' = now + 1
  /\ UNCHANGED <<store, last, issued, lastAuth>>
  /\ UNCHANGED uiVars
  /\ UNCHANGED env

Login ==
  \E username \in CredentialInputs(AUTH_USERNAME),
     password \in CredentialInputs(AUTH_PASSWORD) :
    LET resp == AuthController_login(username, password, now)
    IN /\ issued' = IF resp.code = 200 THEN issued \cup {resp.token} ELSE issued
       /\ lastAuth' = LoginRequest(username, password, now, resp)
       /\ last' = NoLast
       /\ UNCHANGED <<store, now>>
       /\ UNCHANGED uiVars
       /\ UNCHANGED env

\* app.use("/api/tasks", authMiddleware, createTaskRoutes()): the route
\* handler runs only when authMiddleware called next().
Guarded(op, hdr, id, status, data, resp) ==
  LET auth == authMiddleware(hdr, now)
  IN /\ lastAuth' = GuardedRequest(op, hdr, now, auth)
     /\ IF auth.code # 0
        THEN /\ last' = NoLast
             /\ store' = store
        ELSE /\ Len(resp.store) <= MaxGuardedTasks
             /\ last' = HttpRequest(op, id, status, data, resp)
             /\ store' = resp.store
     /\ UNCHANGED <<now, issued>>
     /\ UNCHANGED uiVars
     /\ UNCHANGED env

GuardedPostTasks ==
  \E hdr \in HeaderInputs, body \in GuardedBodies :
    Guarded("createTask", hdr, 0, "", body,
            TaskController_createTask(store, now, body))

GuardedGetTasks ==
  \E hdr \in HeaderInputs, rows \in PrismaFindMany(store) :
    Guarded("getAllTasks", hdr, 0, "", NoData,
            TaskController_getAllTasks(store, rows))

GuardedPutTaskStatus ==
  \E hdr \in HeaderInputs, id \in 1..MaxGuardedTasks,
     status \in GuardedStatusInputs :
    Guarded("updateTaskStatus", hdr, id, status, NoData,
            Route_putStatus(store, now, id, status))

(***************************************************************************)
(* The board in the browser: TaskColumn, TaskBoard, TaskCache and          *)
(* DragDropService.  The session's token is valid throughout; a request    *)
(* either reaches the task routes or fails on the network.                 *)
(***************************************************************************)
HasCard(tasks, id) == \E i \in 1..Len(tasks) : tasks[i].id = id

Column_removeTask(tasks, taskId) == SelectSeq(tasks, LAMBDA x : x.id # taskId)

Column_updateTask(status, tasks, task) ==
  IF task.status # status THEN Column_removeTask(tasks, task.id)
  ELSE IF HasCard(tasks, task.id)
  THEN [i \in 1..Len(tasks) |->
          IF tasks[i].id = task.id THEN task ELSE tasks[i]]
  ELSE Append(tasks, task)

Column_addTask(status, tasks, task) ==
  IF task.status # status THEN tasks
  ELSE IF HasCard(tasks, task.id) THEN Column_updateTask(status, tasks, task)
  ELSE Append(tasks, task)

COLUMN_CONFIG == <<"PENDING", "IN_PROGRESS", "COMPLETED">>
NoColumns == [status \in TaskStatus |-> <<>>]

RECURSIVE AddTasks(_, _)
AddTasks(cols, tasks) ==
  IF tasks = <<>> THEN cols
  ELSE LET task == Head(tasks)
       IN AddTasks(IF task.status \in DOMAIN cols
                   THEN [cols EXCEPT ![task.status] =
                           Column_addTask(task.status, @, task)]
                   ELSE cols,
                   Tail(tasks))

displayTasks_merge(tasks) == AddTasks(columns, tasks)

\* TaskBoard.displayTasks: every column is emptied, then filled.
displayTasks(tasks) == AddTasks(NoColumns, tasks)

TaskBoard_handleTaskMoved(cols, task, fromColumn, toColumn) ==
  LET removed == [cols EXCEPT ![fromColumn] = Column_removeTask(@, task.id)]
  IN [removed EXCEPT ![toColumn] = Column_addTask(toColumn, @, task)]

NoCache == [present |-> FALSE, tasks |-> <<>>, timestamp |-> 0]

\* JSON.stringify of a Task[]: a key whose value is undefined is left out.
JSON_stringify(tasks) ==
  [i \in 1..Len(tasks) |->
     [id |-> tasks[i].id, title |-> tasks[i].title,
      status |-> tasks[i].status, createdAt |-> tasks[i].createdAt,
      updatedAt |-> tasks[i].updatedAt,
      description |-> IF tasks[i].description.t = "undefined" THEN <<>>
                      ELSE <<tasks[i].description>>]]

\* JSON.parse of that text: a key that is not there reads as undefined.
JSON_parse(text) ==
  [i \in 1..Len(text) |->
     [id |-> text[i].id, title |-> text[i].title,
      status |-> text[i].status, createdAt |-> text[i].createdAt,
      updatedAt |-> text[i].updatedAt,
      description |-> IF text[i].description = <<>> THEN Undefined
                      ELSE text[i].description[1]]]

\* 5 * 60 * 1000 ms, in minutes
CACHE_DURATION == 5

TaskCache_set_keepTime(tasks, t) ==
  [present |-> TRUE, tasks |-> JSON_parse(JSON_stringify(tasks)),
   timestamp |-> IF cache.present THEN cache.timestamp ELSE t]

\* TaskCache.set.  The field tasks is the stored text as get will parse it.
TaskCache_set(tasks, t) ==
  [present |-> TRUE, tasks |-> JSON_parse(JSON_stringify(tasks)),
   timestamp |-> t]

TaskCache_get_atLeast(c, t) ==
  IF ~c.present \/ t - c.timestamp >= CACHE_DURATION
  THEN [found |-> FALSE, tasks |-> <<>>, cache |-> NoCache]
  ELSE [found |-> TRUE, tasks |-> c.tasks, cache |-> c]

\* TaskCache.get: found is FALSE when it returns null; cache is what
\* localStorage holds afterwards.
TaskCache_get(c, t) ==
  IF ~c.present \/ t - c.timestamp > CACHE_DURATION
  THEN [found |-> FALSE, tasks |-> <<>>, cache |-> NoCache]
  ELSE [found |-> TRUE, tasks |-> c.tasks, cache |-> c]

NoCacheCall ==
  [op |-> "none", arg |-> <<>>, before |-> NoCache, at |-> 0,
   found |-> FALSE, result |-> <<>>]

CacheCall(op, arg, found, result) ==
  [op |-> op, arg |-> arg, before |-> cache, at |-> clock,
   found |-> found, result |-> result]

ClientTask(id, status, description) ==
  [id |-> id, title |-> <<"a">>, description |-> description,
   status |-> status, createdAt |-> 0, updatedAt |-> 0]

CacheInputs ==
  {<<>>,
   <<ClientTask(1, "PENDING", Undefined)>>,
   <<ClientTask(2, "COMPLETED", Str(<<"b">>)),
     ClientTask(1, "PENDING", Undefined)>>}

\* The methods of TaskCache, called directly, and the browser clock.
CacheSet ==
  \E tasks \in CacheInputs :
    /\ cache' = TaskCache_set(tasks, clock)
    /\ lastCache' = CacheCall("set", tasks, FALSE, <<>>)
    /\ UNCHANGED <<columns, dragData, inflight, isLoading, clock, reloads>>
    /\ UNCHANGED srvVars
    /\ UNCHANGED jwt_token
    /\ UNCHANGED netVars
    /\ UNCHANGED formVars

CacheGet ==
  LET r == TaskCache_get(cache, clock)
  IN /\ cache' = r.cache
     /\ lastCache' = CacheCall("get", <<>>, r.found, r.tasks)
     /\ UNCHANGED <<columns, dragData, inflight, isLoading, clock, reloads>>
     /\ UNCHANGED srvVars
     /\ UNCHANGED jwt_token
     /\ UNCHANGED netVars
     /\ UNCHANGED formVars

CacheClear ==
  /\ cache' = NoCache
  /\ lastCache' = CacheCall("clear", <<>>, FALSE, <<>>)
  /\ UNCHANGED <<columns, dragData, inflight, isLoading, clock, reloads>>
  /\ UNCHANGED srvVars
  /\ UNCHANGED jwt_token
  /\ UNCHANGED netVars
  /\ UNCHANGED formVars

ClockTick ==
  /\ clock < MaxClock
  /\ clock' = clock + 1
  /\ UNCHANGED <<columns, dragData, inflight, isLoading, cache, reloads,
                 lastCache>>
  /\ UNCHANGED srvVars
  /\ UNCHANGED jwt_token
  /\ UNCHANGED netVars
  /\ UNCHANGED formVars

\* dragData = null
NoDrag == [taskId |-> 0, sourceColumn |-> "null", targetColumn |-> "null"]

\* The dragstart listener of a card.
dragstart(task) ==
  [taskId |-> task.id, sourceColumn |-> task.status,
   targetColumn |-> task.status]

DropRequests_always(drag, status) ==
  IF drag # NoDrag
  THEN <<[taskId |-> drag.taskId, newStatus |-> status, column |-> status,
          source |-> drag.sourceColumn]>>
  ELSE <<>>

\* The drop listener of the column with this status, up to the await in
\* TaskColumn.handleTaskDrop: the updateTaskStatus requests it sends.  column
\* is this.status of the TaskColumn whose handleTaskDrop runs; source is not
\* sent and not kept by the code: it remembers where the drag started.
DropRequests(drag, status) ==
  IF drag # NoDrag /\ drag.sourceColumn # status
  THEN <<[taskId |-> drag.taskId, newStatus |-> status, column |-> status,
          source |-> drag.sourceColumn]>>
  ELSE <<>>

RemoveAt(seq, k) == SubSeq(seq, 1, k - 1) \o SubSeq(seq, k + 1, Len(seq))

BoardBodies == {[title |-> Str(<<"a">>), description |-> Undefined]}

\* Another session creates a task.
BoardPostTasks ==
  \E body \in BoardBodies :
    LET resp == TaskController_createTask(store, now, body)
    IN /\ Len(resp.store) <= MaxBoardTasks
       /\ store' = resp.store
       /\ UNCHANGED <<now, last, issued, lastAuth>>
       /\ UNCHANGED uiVars
       /\ UNCHANGED env

\* The getTasks() calls the server has not answered yet.
Unanswered ==
  fetches - Len(SelectSeq(responses, LAMBDA r : r.kind = "list"))

\* loadTasks without its first statement.
loadTasks_begin_unguarded ==
  isLoading' = TRUE /\ cache' = NoCache /\ fetches' = fetches + 1

\* TaskBoard.loadTasks, up to the await.
loadTasks_begin ==
  IF isLoading
  THEN UNCHANGED <<isLoading, cache, fetches>>
  ELSE isLoading' = TRUE /\ cache' = NoCache /\ fetches' = fetches + 1

\* init(), and the "online" and "visibilitychange" listeners.
LoadTasks ==
  /\ ~isLoading
  /\ loadTasks_begin
  /\ UNCHANGED <<columns, dragData, inflight, clock, lastCache, reloads>>
  /\ UNCHANGED srvVars
  /\ UNCHANGED jwt_token
  /\ UNCHANGED responses
  /\ UNCHANGED formVars

\* The callback of setTimeout in handleTaskMoveError.
ReloadTimerFires ==
  /\ reloads > 0
  /\ reloads' = reloads - 1
  /\ loadTasks_begin
  /\ UNCHANGED <<columns, dragData, inflight, clock, lastCache>>
  /\ UNCHANGED srvVars
  /\ UNCHANGED jwt_token
  /\ UNCHANGED responses
  /\ UNCHANGED formVars

\* TaskBoard.loadTasks, after the await: getTasks() resolved.
GetTasksResponds ==
  /\ Unanswered > 0
  /\ fetches' = fetches - 1
  /\ \E rows \in PrismaFindMany(store) :
       LET resp == TaskController_getAllTasks(store, rows)
       IN /\ cache' = TaskCache_set(resp.list, clock)
          /\ columns' = displayTasks(resp.list)
  /\ isLoading' = FALSE
  /\ UNCHANGED <<dragData, inflight, clock, lastCache, reloads>>
  /\ UNCHANGED srvVars
  /\ UNCHANGED jwt_token
  /\ UNCHANGED responses
  /\ UNCHANGED formVars

\* TaskBoard.loadTasks, after the await: getTasks() rejected.
GetTasksFails ==
  /\ Unanswered > 0
  /\ fetches' = fetches - 1
  /\ isLoading' = FALSE
  /\ UNCHANGED <<columns, dragData, inflight, cache, clock, lastCache, reloads>>
  /\ UNCHANGED srvVars
  /\ UNCHANGED jwt_token
  /\ UNCHANGED responses
  /\ UNCHANGED formVars

DragStart ==
  \E status \in TaskStatus :
    \E i \in 1..Len(columns[status]) :
      /\ dragData' = dragstart(columns[status][i])
      /\ UNCHANGED <<columns, inflight, isLoading, cache, clock, lastCache, reloads>>
      /\ UNCHANGED srvVars
      /\ UNCHANGED jwt_token
      /\ UNCHANGED netVars
      /\ UNCHANGED formVars

DragEnd ==
  /\ dragData # NoDrag
  /\ dragData' = NoDrag
  /\ UNCHANGED <<columns, inflight, isLoading, cache, clock, lastCache, reloads>>
  /\ UNCHANGED srvVars
  /\ UNCHANGED jwt_token
  /\ UNCHANGED netVars
  /\ UNCHANGED formVars

Drop(status) ==
  /\ inflight' = inflight \o DropRequests(dragData, status)
  /\ Len(inflight') <= MaxInflight
  /\ UNCHANGED <<columns, dragData, isLoading, cache, clock, lastCache, reloads>>
  /\ UNCHANGED srvVars
  /\ UNCHANGED jwt_token
  /\ UNCHANGED netVars
  /\ UNCHANGED formVars

DropOnColumn == \E status \in TaskStatus : Drop(status)

\* TaskColumn.handleTaskDrop after the await, with the listeners of the
\* board for the event it dispatches.
PutStatusResponds ==
  \E k \in 1..Len(inflight) :
    LET req == inflight[k]
        resp == Route_putStatus(store, now, req.taskId, req.newStatus)
    IN /\ inflight' = RemoveAt(inflight, k)
       /\ store' = resp.store
       /\ IF resp.code = 200
          THEN /\ columns' = TaskBoard_handleTaskMoved(columns, resp.task,
                                                       req.column, req.newStatus)
               /\ cache' = NoCache
               /\ reloads' = reloads
          ELSE /\ reloads < MaxReloads
               /\ reloads' = reloads + 1
               /\ UNCHANGED <<columns, cache>>
       /\ UNCHANGED <<dragData, isLoading, clock, lastCache>>
       /\ UNCHANGED <<now, last, issued, lastAuth>>
       /\ UNCHANGED <<env, jwt_token>>
       /\ UNCHANGED netVars
       /\ UNCHANGED formVars

\* The same, when fetch rejects: the request did not reach the server.
PutStatusFails ==
  \E k \in 1..Len(inflight) :
    /\ reloads < MaxReloads
    /\ inflight' = RemoveAt(inflight, k)
    /\ reloads' = reloads + 1
    /\ UNCHANGED <<columns, dragData, isLoading, cache, clock, lastCache>>
    /\ UNCHANGED srvVars
    /\ UNCHANGED jwt_token
    /\ UNCHANGED netVars
    /\ UNCHANGED formVars

(***************************************************************************)
(* The same requests in two steps each: the server handles the request     *)
(* and sends its response; later the board handles the response.           *)
(* Responses arrive in any order.                                          *)
(***************************************************************************)
NoRequest == [taskId |-> 0, newStatus |-> "", column |-> "", source |-> ""]

ListResponse(list) ==
  [kind |-> "list", code |-> 200, list |-> list, req |-> NoRequest,
   task |-> NoTask]

StatusResponse(req, resp) ==
  [kind |-> "status", code |-> resp.code, list |-> <<>>, req |-> req,
   task |-> resp.task]

\* GET /api/tasks is handled by the task routes.
ServerGetTasks ==
  /\ Unanswered > 0
  /\ Len(responses) < MaxResponses
  /\ \E rows \in PrismaFindMany(store) :
       responses' =
         Append(responses,
                ListResponse(TaskController_getAllTasks(store, rows).list))
  /\ UNCHANGED <<columns, dragData, inflight, isLoading, cache, clock,
                 reloads, lastCache, fetches>>
  /\ UNCHANGED formVars
  /\ UNCHANGED srvVars
  /\ UNCHANGED jwt_token

\* TaskBoard.loadTasks, after the await: getTasks() resolved.
ListArrives ==
  \E k \in 1..Len(responses) :
    /\ responses[k].kind = "list"
    /\ responses' = RemoveAt(responses, k)
    /\ fetches' = fetches - 1
    /\ cache' = TaskCache_set(responses[k].list, clock)
    /\ columns' = displayTasks(responses[k].list)
    /\ isLoading' = FALSE
    /\ UNCHANGED <<dragData, inflight, clock, lastCache, reloads>>
    /\ UNCHANGED formVars
    /\ UNCHANGED srvVars
    /\ UNCHANGED jwt_token

\* PUT /api/tasks/:id/status is handled by the task routes.
ServerPutStatus ==
  \E k \in 1..Len(inflight) :
    LET req == inflight[k]
        resp == Route_putStatus(store, now, req.taskId, req.newStatus)
    IN /\ Len(responses) < MaxResponses
       /\ inflight' = RemoveAt(inflight, k)
       /\ store' = resp.store
       /\ responses' = Append(responses, StatusResponse(req, resp))
       /\ UNCHANGED <<columns, dragData, isLoading, cache, clock, reloads,
                      lastCache, fetches>>
       /\ UNCHANGED formVars
       /\ UNCHANGED <<now, last, issued, lastAuth>>
       /\ UNCHANGED <<env, jwt_token>>

\* TaskColumn.handleTaskDrop after the await, with the listeners of the
\* board for the event it dispatches.
StatusArrives ==
  \E k \in 1..Len(responses) :
    LET r == responses[k]
    IN /\ r.kind = "status"
       /\ responses' = RemoveAt(responses, k)
       /\ IF r.code = 200
          THEN /\ columns' = TaskBoard_handleTaskMoved(columns, r.task,
                                                       r.req.column,
                                                       r.req.newStatus)
               /\ cache' = NoCache
               /\ reloads' = reloads
          ELSE /\ reloads < MaxReloads
               /\ reloads' = reloads + 1
               /\ UNCHANGED <<columns, cache>>
       /\ UNCHANGED <<dragData, inflight, isLoading, clock, lastCache,
                      fetches>>
       /\ UNCHANGED formVars
       /\ UNCHANGED srvVars
       /\ UNCHANGED jwt_token

(***************************************************************************)
(* TaskModal in create mode and TaskBoard.createTask.  The button that     *)
(* opens the modal calls show() without a task, so the modal is never in   *)
(* edit mode.  The form holds the characters typed into its two fields.    *)
(***************************************************************************)
\* The modal after construction and after hide(): hidden, the form reset.
ModalHidden ==
  [hidden |-> TRUE, title |-> <<>>, description |-> <<>>,
   fieldError |-> FALSE, error |-> FALSE]

\* TaskModal.validateTitle: TRUE when the title field is valid.
validateTitle(title) == trim(title) # <<>>

\* TaskModal.show(), without a task.  The general error is not a field
\* error: clearValidationErrors leaves it.
TaskModal_show(m) ==
  [m EXCEPT !.hidden = FALSE, !.title = <<>>, !.description = <<>>,
            !.fieldError = FALSE]

\* TaskModal.hide()
TaskModal_hide(m) ==
  [m EXCEPT !.hidden = TRUE, !.title = <<>>, !.description = <<>>,
            !.fieldError = FALSE]

\* A catch block that closes the modal as the success path does.
TaskModal_submitFailed_hides(m) == TaskModal_hide([m EXCEPT !.error = TRUE])

\* The catch block of TaskModal.handleSubmit: showError.
TaskModal_submitFailed(m) == [m EXCEPT !.error = TRUE]

\* The data handleSubmit passes to the submit callback in create mode.
SubmitData(m) ==
  [title |-> Str(trim(m.title)),
   description |-> IF trim(m.description) = <<>> THEN Undefined
                   ELSE Str(trim(m.description))]

\* The body of TaskBoard.createTask after the await, for the task the
\* server answered with.
TaskBoard_createTask(cols, c, t, newTask) ==
  LET got == TaskCache_get(c, t)
      currentTasks == IF got.found THEN got.tasks ELSE <<>>
  IN [columns |-> [cols EXCEPT !["PENDING"] =
                     Column_addTask("PENDING", @, newTask)],
      cache |-> TaskCache_set(<<newTask>> \o currentTasks, t)]

FormTitles == {<<" ">>, <<"a">>}
FormDescriptions == {<<"b">>}

\* Click on the create button of the board.
ModalShow ==
  /\ modal' = TaskModal_show(modal)
  /\ UNCHANGED <<columns, dragData, inflight, isLoading, cache, clock,
                 reloads, lastCache, creating>>
  /\ UNCHANGED srvVars
  /\ UNCHANGED jwt_token
  /\ UNCHANGED netVars

\* Close button, cancel button, click outside, Escape.
ModalHide ==
  /\ ~modal.hidden
  /\ modal' = TaskModal_hide(modal)
  /\ UNCHANGED <<columns, dragData, inflight, isLoading, cache, clock,
                 reloads, lastCache, creating>>
  /\ UNCHANGED srvVars
  /\ UNCHANGED jwt_token
  /\ UNCHANGED netVars

\* The user types a title; the "input" listener validates it.
ModalTypeTitle ==
  /\ ~modal.hidden
  /\ \E title \in FormTitles :
       modal' = [modal EXCEPT !.title = title,
                              !.fieldError = ~validateTitle(title)]
  /\ UNCHANGED <<columns, dragData, inflight, isLoading, cache, clock,
                 reloads, lastCache, creating>>
  /\ UNCHANGED srvVars
  /\ UNCHANGED jwt_token
  /\ UNCHANGED netVars

\* The user types a description.
ModalTypeDescription ==
  /\ ~modal.hidden
  /\ \E description \in FormDescriptions :
       modal' = [modal EXCEPT !.description = description]
  /\ UNCHANGED <<columns, dragData, inflight, isLoading, cache, clock,
                 reloads, lastCache, creating>>
  /\ UNCHANGED srvVars
  /\ UNCHANGED jwt_token
  /\ UNCHANGED netVars

\* TaskModal.handleSubmit, up to the await.  Ctrl+Enter calls it whether
\* or not the submit button is disabled.
ModalSubmit ==
  /\ ~modal.hidden
  /\ IF validateTitle(modal.title)
     THEN /\ Len(creating) < MaxCreating
          /\ creating' = Append(creating, SubmitData(modal))
          /\ modal' = [modal EXCEPT !.fieldError = FALSE]
     ELSE /\ modal' = [modal EXCEPT !.fieldError = TRUE]
          /\ UNCHANGED creating
  /\ UNCHANGED <<columns, dragData, inflight, isLoading, cache, clock,
                 reloads, lastCache>>
  /\ UNCHANGED srvVars
  /\ UNCHANGED jwt_token
  /\ UNCHANGED netVars

\* TaskBoard.createTask and TaskModal.handleSubmit after the await: the
\* POST reached the task routes.
CreateResponds ==
  \E k \in 1..Len(creating) :
    LET resp == TaskController_createTask(store, now, creating[k])
    IN /\ Len(resp.store) <= MaxBoardTasks
       /\ creating' = RemoveAt(creating, k)
       /\ store' = resp.store
       /\ IF resp.code = 201
          THEN LET r == TaskBoard_createTask(columns, cache, clock, resp.task)
               IN /\ columns' = r.columns
                  /\ cache' = r.cache
                  /\ modal' = TaskModal_hide(modal)
          ELSE /\ modal' = TaskModal_submitFailed(modal)
               /\ UNCHANGED <<columns, cache>>
       /\ UNCHANGED <<dragData, inflight, isLoading, clock, reloads, lastCache>>
       /\ UNCHANGED <<now, last, issued, lastAuth>>
       /\ UNCHANGED <<env, jwt_token>>
       /\ UNCHANGED netVars

\* The same, when fetch rejects: the request did not reach the server.
CreateFails ==
  \E k \in 1..Len(creating) :
    /\ creating' = RemoveAt(creating, k)
    /\ modal' = TaskModal_submitFailed(modal)
    /\ UNCHANGED <<columns, dragData, inflight, isLoading, cache, clock,
                   reloads, lastCache>>
    /\ UNCHANGED srvVars
    /\ UNCHANGED jwt_token
    /\ UNCHANGED netVars

\* The callback of setTimeout in TaskModal.showError.
ModalErrorTimer ==
  /\ modal.error
  /\ modal' = [modal EXCEPT !.error = FALSE]
  /\ UNCHANGED <<columns, dragData, inflight, isLoading, cache, clock,
                 reloads, lastCache, creating>>
  /\ UNCHANGED srvVars
  /\ UNCHANGED jwt_token
  /\ UNCHANGED netVars


(***************************************************************************)
(* The session of the browser: the token under "jwt_token" in              *)
(* localStorage, sent with every request of ApiClient, and the handlers    *)
(* of Application for a login, a logout and a 401 response.  A request     *)
(* and its response are one step.  Every pending request was sent with     *)
(* the token of the session, and a token that was refused stays refused,   *)
(* so a request answered after the token was removed is refused as well.   *)
(***************************************************************************)
\* ApiClient.getAuthHeaders: the Authorization header, when there is a token.
getAuthHeaders(token) ==
  IF token = NoToken
  THEN NoHeader
  ELSE Header(<<Word("Bearer"), TokenPart(token)>>)

\* Application.handleUnauthorized: #app is rendered anew and the board is
\* dropped.  The columns of the old board leave the document, so the events
\* they dispatch no longer reach the listeners of the board on #app.
handleUnauthorized == NoColumns

SessionPasswords == {AUTH_PASSWORD, <<"x">>}

\* LoginComponent.handleLogin: POST /api/auth/login; on success the client
\* AuthService stores the token and the success callback makes a new board,
\* whose init() loads the tasks.  The login form is shown when there is no
\* token; no request of an earlier board is pending.
SessionLogin ==
  /\ jwt_token = NoToken
  /\ ~isLoading /\ fetches = 0 /\ inflight = <<>> /\ reloads = 0
  /\ \E password \in SessionPasswords :
       LET resp == AuthController_login(Str(AUTH_USERNAME), Str(password), now)
       IN /\ lastAuth' = LoginRequest(Str(AUTH_USERNAME), Str(password), now,
                                      resp)
          /\ IF resp.code = 200
             THEN /\ issued' = issued \cup {resp.token}
                  /\ jwt_token' = resp.token
                  /\ columns' = NoColumns
                  /\ loadTasks_begin
             ELSE UNCHANGED <<issued, jwt_token, columns, isLoading, cache,
                              fetches>>
  /\ UNCHANGED <<store, now, last, env>>
  /\ UNCHANGED <<dragData, inflight, clock, reloads, lastCache, responses>>
  /\ UNCHANGED formVars

\* The "online" and "visibilitychange" listeners: they load the tasks of
\* the board of an initialized application.
SessionLoadTasks ==
  /\ jwt_token # NoToken
  /\ LoadTasks

\* GET /api/tasks behind authMiddleware, and TaskBoard.loadTasks after the
\* await.  On 401 ApiClient.handleResponse removes the token, calls
\* handleUnauthorized and throws.
SessionGetTasks ==
  /\ Unanswered > 0
  /\ fetches' = fetches - 1
  /\ isLoading' = FALSE
  /\ LET hdr == getAuthHeaders(jwt_token)
         auth == authMiddleware(hdr, now)
     IN /\ lastAuth' = GuardedRequest("getAllTasks", hdr, now, auth)
        /\ IF auth.code = 0
           THEN /\ \E rows \in PrismaFindMany(store) :
                     LET resp == TaskController_getAllTasks(store, rows)
                     IN /\ cache' = TaskCache_set(resp.list, clock)
                        /\ columns' = displayTasks(resp.list)
                /\ jwt_token' = jwt_token
           ELSE /\ jwt_token' = NoToken
                /\ columns' = handleUnauthorized
                /\ cache' = cache
  /\ UNCHANGED <<store, now, last, issued, env>>
  /\ UNCHANGED <<dragData, inflight, clock, reloads, lastCache, responses>>
  /\ UNCHANGED formVars

\* PUT /api/tasks/:id/status behind authMiddleware, and
\* TaskColumn.handleTaskDrop after the await.  On 401 the token is removed
\* and handleUnauthorized runs before the column dispatches taskMoveError.
SessionPutStatus ==
  \E k \in 1..Len(inflight) :
    LET req == inflight[k]
        hdr == getAuthHeaders(jwt_token)
        auth == authMiddleware(hdr, now)
        resp == Route_putStatus(store, now, req.taskId, req.newStatus)
    IN /\ inflight' = RemoveAt(inflight, k)
       /\ lastAuth' = GuardedRequest("updateTaskStatus", hdr, now, auth)
       /\ IF auth.code # 0
          THEN /\ jwt_token' = NoToken
               /\ columns' = handleUnauthorized
               /\ UNCHANGED <<store, cache, reloads>>
          ELSE /\ jwt_token' = jwt_token
               /\ store' = resp.store
               /\ IF resp.code = 200
                  THEN /\ columns' = TaskBoard_handleTaskMoved(
                                       columns, resp.task, req.column,
                                       req.newStatus)
                       /\ cache' = NoCache
                       /\ reloads' = reloads
                  ELSE /\ reloads < MaxReloads
                       /\ reloads' = reloads + 1
                       /\ UNCHANGED <<columns, cache>>
       /\ UNCHANGED <<now, last, issued, env>>
       /\ UNCHANGED <<dragData, isLoading, clock, lastCache>>
       /\ UNCHANGED netVars
       /\ UNCHANGED formVars

\* Application.handleLogout: AuthService.logout() removes the token,
\* taskCache.clear(), and #app is rendered anew.  The user logs out of an
\* idle board.
Logout ==
  /\ jwt_token # NoToken
  /\ ~isLoading /\ fetches = 0 /\ inflight = <<>>
  /\ jwt_token' = NoToken
  /\ cache' = NoCache
  /\ columns' = NoColumns
  /\ UNCHANGED srvVars
  /\ UNCHANGED <<dragData, inflight, isLoading, clock, reloads, lastCache>>
  /\ UNCHANGED netVars
  /\ UNCHANGED formVars

(***************************************************************************)
(* Specifications.  Spec: the Task Service and the task routes, called     *)
(* directly.  SpecAuth: the application, with the Auth Gate and the clock. *)
(* SpecBoard: the board in the browser and the task routes it talks to.    *)
(* SpecDrag: the same, on a network that does not fail.                    *)
(* SpecCache: TaskCache called directly, with the browser clock.           *)
(* SpecList: creating and listing tasks while the server clock advances.   *)
(* SpecTime: creating and updating tasks while the server clock advances.  *)
(* SpecModal: the modal and the creation of tasks through it.              *)
(* SpecLoad: the loads of the board and the failed drops that schedule     *)
(* reloads, while the browser clock advances; every fetch of the list      *)
(* settles in the end.                                                     *)
(* SpecRace: the board, with every response travelling on its own.         *)
(* SpecSession: the board behind the Auth Gate, with the token of the      *)
(* browser, while the server clock advances.                               *)
(* SpecConfig: the application under every setting of JWT_EXPIRES_IN.      *)
(***************************************************************************)
InitState ==
  /\ store = <<>>
  /\ now = 0
  /\ last = NoLast
  /\ issued = {}
  /\ lastAuth = NoAuth
  /\ columns = NoColumns
  /\ dragData = NoDrag
  /\ inflight = <<>>
  /\ isLoading = FALSE
  /\ cache = NoCache
  /\ clock = 0
  /\ reloads = 0
  /\ lastCache = NoCacheCall
  /\ modal = ModalHidden
  /\ creating = <<>>
  /\ fetches = 0
  /\ responses = <<>>
  /\ jwt_token = NoToken

\* The server started without JWT_EXPIRES_IN.
Init == InitState /\ env = Unset

\* The server started with any of the settings.
InitEnv == InitState /\ env \in EnvInputs

Next ==
  \/ SvcCreateTask
  \/ SvcGetAllTasks
  \/ SvcUpdateTaskStatus
  \/ SvcUpdateTask
  \/ SvcFindTaskById
  \/ PostTasks
  \/ GetTasks
  \/ PutTaskStatus

Spec == Init /\ [][Next]_vars

NextAuth ==
  \/ Tick
  \/ Login
  \/ GuardedPostTasks
  \/ GuardedGetTasks
  \/ GuardedPutTaskStatus

SpecAuth == Init /\ [][NextAuth]_vars

NextBoard ==
  \/ BoardPostTasks
  \/ LoadTasks
  \/ ReloadTimerFires
  \/ GetTasksResponds
  \/ GetTasksFails
  \/ DragStart
  \/ DragEnd
  \/ DropOnColumn
  \/ PutStatusResponds
  \/ PutStatusFails
  \/ ModalShow
  \/ ModalHide
  \/ ModalTypeTitle
  \/ ModalTypeDescription
  \/ ModalSubmit
  \/ CreateResponds
  \/ CreateFails
  \/ ModalErrorTimer

SpecBoard == Init /\ [][NextBoard]_vars

NextDrag ==
  \/ BoardPostTasks
  \/ LoadTasks
  \/ GetTasksResponds
  \/ DragStart
  \/ DragEnd
  \/ DropOnColumn
  \/ PutStatusResponds

SpecDrag == Init /\ [][NextDrag]_vars

NextCache ==
  \/ CacheSet
  \/ CacheGet
  \/ CacheClear
  \/ ClockTick

SpecCache == Init /\ [][NextCache]_vars

NextList ==
  \/ Tick
  \/ SvcCreateTask
  \/ SvcUpdateTaskStatus
  \/ SvcGetAllTasks
  \/ GetTasks

SpecList == Init /\ [][NextList]_vars

\* createTask, while the table holds few rows.
TimedCreateTask ==
  /\ Len(store) < MaxTimedTasks
  /\ SvcCreateTask

NextTime ==
  \/ Tick
  \/ TimedCreateTask
  \/ SvcUpdateTaskStatus
  \/ SvcUpdateTask

SpecTime == Init /\ [][NextTime]_vars

NextModal ==
  \/ ModalShow
  \/ ModalHide
  \/ ModalTypeTitle
  \/ ModalTypeDescription
  \/ ModalSubmit
  \/ CreateResponds
  \/ CreateFails
  \/ ModalErrorTimer

SpecModal == Init /\ [][NextModal]_vars

NextLoad ==
  \/ BoardPostTasks
  \/ LoadTasks
  \/ ReloadTimerFires
  \/ GetTasksResponds
  \/ GetTasksFails
  \/ DragStart
  \/ DragEnd
  \/ DropOnColumn
  \/ PutStatusFails
  \/ ClockTick

\* fetch settles: every getTasks() call resolves or rejects in the end.
SpecLoad ==
  Init /\ [][NextLoad]_vars /\ WF_vars(GetTasksResponds \/ GetTasksFails)

NextRace ==
  \/ BoardPostTasks
  \/ LoadTasks
  \/ ServerGetTasks
  \/ ListArrives
  \/ DragStart
  \/ DragEnd
  \/ DropOnColumn
  \/ ServerPutStatus
  \/ StatusArrives

SpecRace == Init /\ [][NextRace]_vars

NextSession ==
  \/ Tick
  \/ BoardPostTasks
  \/ SessionLogin
  \/ SessionLoadTasks
  \/ SessionGetTasks
  \/ DragStart
  \/ DropOnColumn
  \/ SessionPutStatus
  \/ Logout

SpecSession == Init /\ [][NextSession]_vars

SpecConfig == InitEnv /\ [][NextAuth]_vars

(***************************************************************************)
(* Properties.                                                             *)
(***************************************************************************)
IsBlankTitle(v) == v.t = "string" /\ trim(v.s) = <<>>
TaskOps == {"createTask", "getAllTasks", "updateTaskStatus"}

\* C1: updateTaskStatus with a status outside the enum fails with a
\* validation error whether or not the id exists: no Prisma call is made (no
\* task is read) and the store is unchanged; through HTTP the answer is 400.
C1_InvalidStatusFailsBeforeLookup ==
  [][(last'.op = "updateTaskStatus" /\ last'.status \notin TaskStatus)
       => /\ last'.calls = <<>>
          /\ store' = store
          /\ last'.via = "service" => last'.err = "validation"
          /\ last'.via = "http" => last'.code = 400]_vars

C1_Witness ==
  /\ last.op = "updateTaskStatus" /\ last.via = "service"
  /\ last.status = "DONE" /\ last.err = "validation"
  /\ store # <<>> /\ last.id \notin StoreIds(store) /\ last.id # BlankId

C3_StoredStatusInEnum ==
  \A i \in 1..Len(store) : store[i].status \in {"PENDING", "IN_PROGRESS", "COMPLETED"}

C3_Witness ==
  /\ last.op = "updateTaskStatus" /\ last.status = "DONE"
  /\ \E i \in 1..Len(store) : store[i].id = last.id /\ store[i].status = "COMPLETED"

\* C4: a createTask call with a title that is not empty after trimming
\* returns a task; every task createTask returns has status PENDING and an id
\* that no task created before it has.
C4_CreatedTaskPendingWithFreshId ==
  last.op = "createTask" =>
    /\ (last.via = "service" /\ last.data.title.t = "string"
          /\ ~IsBlankTitle(last.data.title)) => last.err = "none"
    /\ (last.err = "none" /\ last.via = "http") => last.code = 201
    /\ last.err = "none" =>
         /\ last.task.status = "PENDING"
         /\ store # <<>>
         /\ store[Len(store)].id = last.task.id
         /\ store[Len(store)].status = "PENDING"
         /\ \A i \in 1..(Len(store) - 1) : store[i].id # last.task.id

C4_Witness ==
  /\ last.op = "createTask" /\ last.via = "service" /\ last.err = "none"
  /\ Len(store) = 2 /\ store[1].status # "PENDING"

\* C5: createTask with a title that is empty or only white space fails with a
\* validation error; prisma.task.create is not invoked and the store is
\* unchanged.
C5_BlankTitleRejected ==
  [][(last'.op = "createTask" /\ IsBlankTitle(last'.data.title))
       => /\ last'.calls = <<>>
          /\ store' = store
          /\ last'.task = NoTask
          /\ last'.via = "service" => last'.err = "validation"]_vars

C5_Witness ==
  /\ last.op = "createTask" /\ last.via = "service"
  /\ last.data.title = Str(<<" ">>) /\ last.err = "validation"
  /\ store # <<>>

\* C6: POST on the task-creation endpoint with a whitespace-only title is
\* answered 400 with the message "Title is required and cannot be empty",
\* and no task is sent back.
C6_WhitespaceTitleAnswered400 ==
  (/\ last.op = "createTask" /\ last.via = "http"
   /\ last.data.title.t = "string" /\ last.data.title.s # <<>>
   /\ IsBlankTitle(last.data.title))
    => /\ last.code = 400
       /\ last.message = MsgTitleRequired
       /\ last.task = NoTask

\* C7: a request to a task endpoint that carries no Authorization header, a
\* header not of the form "Bearer <token>", or a token that is not an issued,
\* unexpired one is answered 401 and does not reach the task routes: the
\* store is unchanged and no task data is returned.
IsBearerHeader(hdr) ==
  /\ hdr.present /\ Len(hdr.parts) = 2
  /\ hdr.parts[1].w = "Bearer" /\ hdr.parts[2].w = "<token>"

IsLiveToken(tok, t) == tok \in issued /\ t < tok.exp

C7_UnauthenticatedRequestsStopAtGate ==
  [][(/\ lastAuth'.op \in TaskOps
      /\ ~(/\ IsBearerHeader(lastAuth'.header)
           /\ IsLiveToken(lastAuth'.header.parts[2].tok, lastAuth'.at)))
       => /\ lastAuth'.code = 401
          /\ last' = NoLast
          /\ store' = store]_vars

C7_Witness ==
  /\ lastAuth.op = "updateTaskStatus" /\ lastAuth.code = 401
  /\ Len(lastAuth.header.parts) = 2 /\ lastAuth.header.parts[1].w = "Basic"
  /\ IsLiveToken(lastAuth.header.parts[2].tok, lastAuth.at)
  /\ store # <<>>

\* C8: login issues a token if and only if username and password both equal
\* the configured values exactly; for every other pair AuthService.login
\* fails with invalid credentials, which POST /auth/login answers 401 without
\* a token.
C8_LoginIffBothSecretsMatch ==
  lastAuth.op = "login" =>
    LET match == /\ lastAuth.username = Str(<<"u">>)
                 /\ lastAuth.password = Str(<<"p">>)
    IN /\ lastAuth.token # NoToken <=> match
       /\ match => (lastAuth.code = 200 /\ lastAuth.token \in issued)
       /\ (~match /\ lastAuth.err # "nocall") => lastAuth.err = "invalid"
       /\ lastAuth.err = "invalid" =>
            (lastAuth.code = 401 /\ lastAuth.token = NoToken)
       /\ ~match => lastAuth.code \in {400, 401}

C8_Witness ==
  /\ lastAuth.op = "login" /\ lastAuth.code = 401
  /\ lastAuth.username = Str(AUTH_USERNAME)
  /\ lastAuth.password = Str(AUTH_PASSWORD \o <<" ">>)

\* C9: the token check yields the decoded identity exactly for tokens that a
\* successful login issued and whose expiry has not been reached; for every
\* other token it yields the invalid result and the request is answered 401.
C9_VerifyAcceptsExactlyLiveIssuedTokens ==
  /\ \A tok \in TokenInputs :
       verifyToken(tok, now) # NoPayload <=> IsLiveToken(tok, now)
  /\ (lastAuth.op \in TaskOps /\ IsBearerHeader(lastAuth.header)) =>
       LET tok == lastAuth.header.parts[2].tok
       IN /\ lastAuth.decoded # NoPayload <=> IsLiveToken(tok, lastAuth.at)
          /\ lastAuth.decoded = NoPayload => lastAuth.code = 401
          /\ lastAuth.decoded # NoPayload =>
               /\ lastAuth.decoded.username = AUTH_USERNAME
               /\ lastAuth.decoded.exp = tok.exp
               /\ lastAuth.code = 0

C9_Witness ==
  /\ lastAuth.op \in TaskOps /\ IsBearerHeader(lastAuth.header)
  /\ lastAuth.header.parts[2].tok \in issued
  /\ lastAuth.at >= lastAuth.header.parts[2].tok.exp
  /\ lastAuth.code = 401

\* C10: a drop on the column whose status equals the status recorded at drag
\* start sends no request; a drop on a column with another status sends
\* exactly one status update, for the dragged task's id and that column's
\* status.
C10_DropSendsOneRequestUnlessSameColumn ==
  [][\A status \in TaskStatus :
       (Drop(status) /\ dragData # NoDrag) =>
          IF dragData.sourceColumn = status
          THEN inflight' = inflight
          ELSE /\ Len(inflight') = Len(inflight) + 1
               /\ SubSeq(inflight', 1, Len(inflight)) = inflight
               /\ inflight'[Len(inflight')].taskId = dragData.taskId
               /\ inflight'[Len(inflight')].newStatus = status]_vars

C10_Witness ==
  /\ dragData # NoDrag
  /\ Len(inflight) = 1
  /\ inflight[1].taskId = dragData.taskId
  /\ inflight[1].newStatus # dragData.sourceColumn
  /\ inflight[1].newStatus = "COMPLETED"

\* C11: when the status update of a drop succeeds, the task is no longer in
\* the list of the column it was dragged from, it is in the list of the drop
\* column (at its end when it was not there before), and the cache is empty.
C11_SuccessfulMoveLeavesSourceColumn ==
  [][\A k \in 1..Len(inflight) :
       (inflight' = RemoveAt(inflight, k) /\ reloads' = reloads) =>
          LET req == inflight[k]
              target == columns'[req.newStatus]
          IN /\ ~HasCard(columns'[req.source], req.taskId)
             /\ HasCard(target, req.taskId)
             /\ ~HasCard(columns[req.newStatus], req.taskId) =>
                  target[Len(target)].id = req.taskId
             /\ cache' = NoCache]_vars

\* C12: in every reachable state of the board each task id is in the list of
\* at most one column, once, and every task in a column's list has that
\* column's status.
C12_TaskInAtMostOneColumn ==
  \A status \in TaskStatus :
    \A i \in 1..Len(columns[status]) :
      /\ columns[status][i].status = status
      /\ \A j \in 1..Len(columns[status]) :
           columns[status][j].id = columns[status][i].id => j = i
      /\ \A other \in TaskStatus \ {status} :
           ~HasCard(columns[other], columns[status][i].id)

\* C13: while the status update of a drop is in flight, and when it has
\* failed, the dragged task is in the list of the column the drag started
\* from and in the list of no other column.
InSourceColumnOnly(cols, req) ==
  /\ HasCard(cols[req.source], req.taskId)
  /\ \A other \in TaskStatus \ {req.source} : ~HasCard(cols[other], req.taskId)

C13_MoveAppliedOnlyAfterSuccess ==
  [][/\ \A k \in 1..Len(inflight') : InSourceColumnOnly(columns', inflight'[k])
     /\ \A k \in 1..Len(inflight) :
          (inflight' = RemoveAt(inflight, k) /\ reloads' = reloads + 1) =>
             InSourceColumnOnly(columns', inflight[k])]_vars

\* C14: when the delay after a failed drop elapses, a request for the task
\* list is issued, whatever the board is doing then; and when a request for
\* the task list succeeds, the columns hold its result.
C14_FailedDropIsFollowedByReload ==
  [][/\ reloads' = reloads - 1 => (~isLoading /\ isLoading')
     /\ (isLoading /\ ~isLoading' /\ cache'.present) =>
          \A status \in TaskStatus :
            columns'[status] =
              SelectSeq(cache'.tasks, LAMBDA task : task.status = status)]_vars

\* C15: when loadTasks completes successfully, every column's list is the
\* tasks of the list the server returned that have the column's status, in
\* the order of that list, whatever the columns held before.
C15_ReloadReplacesColumns ==
  [][(isLoading /\ ~isLoading') =>
       \E rows \in PrismaFindMany(store) :
         LET list == TaskController_getAllTasks(store, rows).list
         IN /\ cache'.tasks = list
            /\ \A status \in TaskStatus :
                 columns'[status] =
                   SelectSeq(list, LAMBDA task : task.status = status)]_vars

C15_Witness ==
  /\ cache.present /\ ~isLoading
  /\ cache.tasks # <<>>
  /\ \A i \in 1..Len(cache.tasks) : cache.tasks[i].status = "COMPLETED"
  /\ columns["PENDING"] = <<>>
  /\ columns["COMPLETED"] = cache.tasks

\* C16: TaskCache.get returns null when nothing is stored or when the stored
\* capture time is more than 5 minutes before now, and then both entries are
\* gone; a snapshot captured 5 minutes ago or less is returned and kept.
C16_GetEvictsAfterFiveMinutes ==
  lastCache.op = "get" =>
    LET stored == lastCache.before
        fresh == stored.present /\ lastCache.at - stored.timestamp <= 5
    IN /\ ~fresh => (~lastCache.found /\ ~cache.present /\ cache = NoCache)
       /\ fresh => /\ lastCache.found
                   /\ lastCache.result = stored.tasks
                   /\ cache = stored

C16_Witness ==
  /\ lastCache.op = "get" /\ lastCache.before.present
  /\ lastCache.before.tasks # <<>>
  /\ lastCache.at - lastCache.before.timestamp = 6
  /\ ~lastCache.found /\ ~cache.present

\* C17: set(tasks) replaces what was stored and sets the capture time to
\* now: a get() at that moment returns a list equal to tasks, whatever was
\* stored before and however old it was.
C17_SetThenGetReturnsTasks ==
  lastCache.op = "set" =>
    LET r == TaskCache_get(cache, lastCache.at)
    IN /\ r.found
       /\ r.tasks = lastCache.arg
       /\ r.cache = cache
       /\ cache.timestamp = lastCache.at

C17_Witness ==
  /\ lastCache.op = "set" /\ lastCache.before.present
  /\ lastCache.at - lastCache.before.timestamp > 5
  /\ Len(lastCache.before.tasks) = 2 /\ Len(lastCache.arg) = 1
  /\ cache.tasks = lastCache.arg /\ clock = lastCache.at

\* A step in which the board hears that a status move succeeded.
MoveSucceeds ==
  \E k \in 1..Len(inflight) :
    inflight' = RemoveAt(inflight, k) /\ reloads' = reloads

\* A step in which the board hears that the server created its task.
CreationSucceeds ==
  \E k \in 1..Len(creating) :
    creating' = RemoveAt(creating, k) /\ Len(store') = Len(store) + 1

\* C18: after every successful mutation made by the client (a creation or
\* a status move) the Client Cache holds no snapshot.
C18_MutationClearsCache ==
  [][(MoveSucceeds \/ CreationSucceeds) => cache' = NoCache]_vars

\* C19: every snapshot the Client Cache comes to hold is stored by the
\* response of a fetch of the task list and is the list the server sent;
\* no other step builds or extends a snapshot.
C19_SnapshotIsAFetchedList ==
  [][(cache' # cache /\ cache'.present) =>
       /\ isLoading /\ ~isLoading'
       /\ \E rows \in PrismaFindMany(store) :
            cache'.tasks = TaskController_getAllTasks(store, rows).list]_vars

\* C20: getAllTasks returns without error; on an empty store it returns the
\* empty list; otherwise it returns every task created so far, each once,
\* a task created at a later time before one created at an earlier time.
C20_ListReturnsAllTasksNewestFirst ==
  (last.op = "getAllTasks" /\ last.via = "service") =>
    /\ last.err = "none"
    /\ store = <<>> => last.list = <<>>
    /\ Len(last.list) = Len(store)
    /\ \A i \in 1..Len(store) :
         \E j \in 1..Len(last.list) :
           last.list[j] = convertPrismaTaskToTask(store[i])
    /\ \A i, j \in 1..Len(last.list) :
         i < j => last.list[i].createdAt >= last.list[j].createdAt

C20_Witness ==
  /\ last.op = "getAllTasks" /\ last.via = "service"
  /\ Len(last.list) >= 2
  /\ last.list[1].createdAt > last.list[2].createdAt

\* A step that is a call of the Task Service method op.
ServiceCallStep(op) ==
  now' = now /\ last'.op = op /\ last'.via = "service"

\* C21: updateTaskStatus with the status the task already has returns
\* without error, leaves the status as it was and sets updatedAt to the
\* time of the call, in the row and in the returned task.
C21_SameStatusStillSucceeds ==
  [][(/\ ServiceCallStep("updateTaskStatus")
      /\ last'.before # NoTask
      /\ last'.status = last'.before.status)
     => /\ last'.err = "none"
        /\ last'.task.status = last'.before.status
        /\ last'.task.updatedAt = now
        /\ PrismaFindUnique(store', last'.id).status = last'.before.status
        /\ PrismaFindUnique(store', last'.id).updatedAt = now]_vars

C21_Witness ==
  /\ last.op = "updateTaskStatus" /\ last.via = "service"
  /\ last.before # NoTask
  /\ last.status = last.before.status
  /\ last.err = "none"
  /\ last.task.updatedAt > last.before.updatedAt

\* C22: a task's createdAt is the time of its creation and no later step
\* changes it; in every state each task's updatedAt is at or after its
\* createdAt.
C22_CreatedAtFixedUpdatedAtNotBefore ==
  [][/\ Len(store') >= Len(store)
     /\ \A i \in 1..Len(store) :
          /\ store'[i].id = store[i].id
          /\ store'[i].createdAt = store[i].createdAt
     /\ \A i \in (Len(store) + 1)..Len(store') : store'[i].createdAt = now
     /\ \A i \in 1..Len(store') :
          store'[i].updatedAt >= store'[i].createdAt]_vars

C22_Witness ==
  /\ last.op = "updateTask" /\ last.via = "service" /\ last.err = "none"
  /\ last.before.status # "PENDING"
  /\ last.task.updatedAt > last.task.createdAt
  /\ last.before.updatedAt = last.before.createdAt

\* C23: a successful updateTaskStatus changes nothing but the status and
\* updatedAt of the task it names: the table keeps its rows, that row keeps
\* its id, title, description and createdAt, every other row is unchanged.
C23_StatusUpdateChangesOnlyStatusAndTime ==
  [][(ServiceCallStep("updateTaskStatus") /\ last'.err = "none")
     => /\ Len(store') = Len(store)
        /\ \A i \in 1..Len(store) :
             IF store[i].id = last'.id
             THEN store'[i] = [store[i] EXCEPT !.status = last'.status,
                                               !.updatedAt = now]
             ELSE store'[i] = store[i]]_vars

C23_Witness ==
  /\ last.op = "updateTaskStatus" /\ last.via = "service"
  /\ last.err = "none"
  /\ last.before.status # last.status
  /\ Len(store) >= 2
  /\ \E i \in 1..Len(store) : store[i].status # last.status

\* C24: no call of the Task Service and no request to the task routes
\* removes a task: every id in the table before a step is in it after.
C24_NoTaskIsRemoved ==
  [][StoreIds(store) \subseteq StoreIds(store')]_vars

C24_Witness ==
  /\ Len(store) >= 2
  /\ last.op = "updateTask" /\ last.err = "none"
  /\ \E i \in 1..Len(store) : store[i].status # "PENDING"

\* C25: updateTask with a title that is empty after trimming fails with a
\* validation error before any Prisma call, whether or not the id exists;
\* with a valid title and an id no task has, it fails with not-found; both
\* leave the table unchanged.  Otherwise it returns, the task has the
\* trimmed title and description of the call, its id, status and createdAt
\* are as before, and every other row is unchanged.
C25_UpdateTaskValidatesThenLooksUpThenReplaces ==
  [][ServiceCallStep("updateTask") =>
      LET data == last'.data
          id == last'.id
      IN IF IsBlankTitle(data.title)
         THEN /\ last'.err = "validation"
              /\ last'.calls = <<>>
              /\ store' = store
         ELSE IF id \notin StoreIds(store)
         THEN /\ last'.err = "notfound"
              /\ store' = store
         ELSE /\ last'.err = "none"
              /\ Len(store') = Len(store)
              /\ \A i \in 1..Len(store) :
                   IF store[i].id = id
                   THEN /\ store'[i].title = trim(data.title.s)
                        /\ store'[i].description =
                             (IF data.description.t = "undefined" THEN JNull
                              ELSE Str(trim(data.description.s)))
                        /\ store'[i].id = store[i].id
                        /\ store'[i].status = store[i].status
                        /\ store'[i].createdAt = store[i].createdAt
                        /\ last'.task = convertPrismaTaskToTask(store'[i])
                   ELSE store'[i] = store[i]]_vars

\* The three cases of C25 cannot share a state; the witness is the
\* replacement of the fields of a task whose status has been changed.
C25_Witness ==
  /\ last.op = "updateTask" /\ last.via = "service"
  /\ last.err = "none"
  /\ last.before.status = "COMPLETED"
  /\ last.task.status = "COMPLETED"
  /\ last.task.description # last.before.description

\* A step in which a submit of the modal settles without a created task.
CreationFails ==
  /\ \E k \in 1..Len(creating) : creating' = RemoveAt(creating, k)
  /\ store' = store

\* C26: when a submit fails the handler leaves the modal as open as it was
\* and the form's title and description as they were, and shows the error;
\* a settling submit hides the modal and resets the form only when it
\* succeeded.
C26_FailedSubmitKeepsModalAndInput ==
  [][/\ CreationFails =>
          /\ modal'.hidden = modal.hidden
          /\ modal'.title = modal.title
          /\ modal'.description = modal.description
          /\ modal'.error
     /\ CreationSucceeds =>
          /\ modal'.hidden
          /\ modal'.title = <<>> /\ modal'.description = <<>>]_vars

C26_Witness ==
  /\ ~modal.hidden
  /\ modal.error
  /\ modal.title = <<"a">>
  /\ modal.description = <<"b">>
  /\ creating = <<>>
  /\ store = <<>>

\* No request of the board is on its way, answered or not, and no reload
\* is scheduled.
Quiescent ==
  inflight = <<>> /\ responses = <<>> /\ fetches = 0 /\ reloads = 0

\* C27: once every request of the board has completed, every card is in
\* the column of the status its task has in the store, whatever the order
\* in which the responses arrived.
C27_QuiescentBoardAgreesWithServer ==
  Quiescent =>
    \A status \in TaskStatus :
      \A i \in 1..Len(columns[status]) :
        PrismaFindUnique(store, columns[status][i].id).status = status

\* C28: the board awaits at most one getTasks() call, and isLoading is set
\* exactly while it awaits one; a loadTasks call made while isLoading is
\* set issues no request; the step in which a call settles, resolved or
\* rejected, clears isLoading; and isLoading never stays set forever.
C28_OneFetchAtATime ==
  /\ [](fetches <= 1 /\ (isLoading <=> fetches = 1))
  /\ [][(reloads' = reloads - 1 /\ isLoading) =>
          (fetches' = fetches /\ isLoading')]_vars
  /\ [][fetches' < fetches => ~isLoading']_vars
  /\ (isLoading ~> ~isLoading)

C28_Witness ==
  /\ isLoading
  /\ fetches = 1
  /\ reloads > 0

\* C29: whenever the client holds no bearer token, after a logout or after a
\* 401 response made it discard the token, the Client Cache holds no task
\* snapshot.
C29_NoTokenNoSnapshot == jwt_token = NoToken => ~cache.present

\* The lifetime a value of expiresIn names, in units of the server clock.
Lifetime(expiresIn) ==
  IF expiresIn = "24h" THEN ExpiresIn24h
  ELSE IF expiresIn = "48h" THEN 2 * ExpiresIn24h
  ELSE 0

\* C30: under every setting of the token lifetime, the expiresIn a
\* successful login returns names the lifetime encoded in the token it
\* issued.
C30_ExpiresInIsTheTokenLifetime ==
  (lastAuth.op = "login" /\ lastAuth.code = 200)
    => lastAuth.token.exp - lastAuth.token.iat = Lifetime(lastAuth.expiresIn)

====
